---- MODULE Spec2Model ----
(***************************************************************************)
(* Model of the coffee-journal record access layer:                        *)
(*   server/storage.ts  FirestoreStorage (the user-scoped version,         *)
(*                      lines 19-129) and                                  *)
(*   server/routes.ts   the /api/coffees handlers that call it.            *)
(*                                                                         *)
(* Documents are functions from field names to values, so that the object  *)
(* spreads of the source ({...insertCoffee, userId}) can be modelled key   *)
(* by key.  Ratings are JavaScript numbers; they are represented exactly   *)
(* as integers counting eighths (R(9) is 9, R(9) \div 2 is 4.5).           *)
(*                                                                         *)
(* Three specifications share the actions:                                 *)
(*   Spec      two handlers whose requests overlap, one payload;           *)
(*   SeqSpec   one request at a time, three payloads, one more document;   *)
(*   NormSpec  getCoffees over one stored document of any rating, with the *)
(*             listed record normalized a second time.                     *)
(***************************************************************************)
EXTENDS Integers, Sequences, FiniteSets, TLC

\* ---------------------------------------------------------------- bounds
MaxDocs == 2          \* documents created in Spec
SeqDocs == 3          \* documents created in SeqSpec
SortLen == 3          \* documents in the collection of SortSpec
TripDocs == 1         \* documents created in TripSpec
MaxRaw  == 11         \* largest stored rating of a legacy document (NormSpec)

\* ---------------------------------------------------------------- values
R(n) == n * 8         \* the JavaScript number n, in eighths
NotNumber == -1       \* a value for which typeof v === 'number' is false

Users    == {"u1", "u2"}
Handlers == {"h1", "h2"}
DocIds   == 1..SeqDocs
Times    == {1}
SortKeys == {"orderDate", "overallTasteRating"}
NoBrand  == ""        \* brandName argument omitted (falsy)
Brands   == {"Lavazza", "Illy"}

\* {...a, ...b}: the keys of both, b winning on the keys they share
Merge(a, b) ==
  [k \in (DOMAIN a) \cup (DOMAIN b) |-> IF k \in DOMAIN b THEN b[k] ELSE a[k]]

\* Payloads handed to createCoffee / updateCoffee.  The one of FewInputs
\* carries a userId key of its own: the routes strip unknown keys (zod), the
\* storage interface itself does not forbid them.
Payload(b, r, d) == [brandName |-> b, overallTasteRating |-> r, orderDate |-> d]
FewInputs ==
  { Merge(Payload("Illy", R(6), "2024-01-01"), [userId |-> "u2"]) }
Inputs ==
  FewInputs \cup
  { Payload("Lavazza", R(9), "2024-01-01"),
    Payload("Illy",    R(4), "2024-02-01") }

\* the result of getTime() on an Invalid Date, and of arithmetic on it
NaN == -1000000

\* storage.ts 61-65: getMillis on an orderDate; the calendar dates in use
\* count in days since 1970, "" stands for every falsy value (!d), and any
\* other string is one new Date() cannot parse
getMillis(d) ==
  CASE d = ""           -> 0
    [] d = "1960-01-01" -> -3653
    [] d = "2024-01-01" -> 19723
    [] d = "2024-02-01" -> 19754
    [] OTHER            -> NaN

\* x - y in floating point: NaN when either side is
Minus(x, y) == IF x = NaN \/ y = NaN THEN NaN ELSE x - y

\* --------------------------------------------------- storage.ts, pure parts
\* typeof v === 'number'
IsNumber(v) == v # NotNumber

\* slip: every number halved, the threshold forgotten
normalizeAlways(overall) ==
  IF IsNumber(overall) THEN overall \div 2 ELSE overall

\* slip: the threshold written >= 5
normalizeFrom5(overall) ==
  IF IsNumber(overall) /\ overall >= R(5) THEN overall \div 2 ELSE overall

\* storage.ts 33-36: the rating normalization of getCoffees
normalize(overall) ==
  IF IsNumber(overall) /\ overall > R(5) THEN overall \div 2 ELSE overall

\* data.k || dflt  for a text field k
OrDefault(data, k, dflt) ==
  IF k \in DOMAIN data /\ data[k] # "" THEN data[k] ELSE dflt

\* data.overallTasteRating (undefined is not a number)
RawRating(data) ==
  IF "overallTasteRating" \in DOMAIN data THEN data.overallTasteRating ELSE NotNumber

\* slip: the stored rating passed on as it is
MapDocRaw(id, data) ==
  Merge([id |-> id,
         coffeeName |-> IF "coffeeName" \in DOMAIN data /\ data.coffeeName # ""
                        THEN data.coffeeName ELSE "",
         quantityUnit |-> IF "quantityUnit" \in DOMAIN data /\ data.quantityUnit # ""
                          THEN data.quantityUnit ELSE "g"],
        data)

\* storage.ts 30-44: the object getCoffees builds from one document
MapDoc(id, data) ==
  Merge(Merge([id |-> id,
               coffeeName |-> OrDefault(data, "coffeeName", ""),
               quantityUnit |-> OrDefault(data, "quantityUnit", "g")],
              data),
        [overallTasteRating |-> normalize(RawRating(data))])

\* storage.ts 80-85: the object getCoffee builds
GetDoc(id, data) ==
  Merge([id |-> id,
         coffeeName |-> OrDefault(data, "coffeeName", ""),
         quantityUnit |-> OrDefault(data, "quantityUnit", "g")],
        data)

\* variant: updatedAt stamped at creation as well
CreateDataStampsUpdated(userId, insertCoffee, t) ==
  Merge(Merge(insertCoffee, [userId |-> userId]), [createdAt |-> t, updatedAt |-> t])

\* slip: the spread written after userId, so the payload's userId wins
CreateDataPayloadWins(userId, insertCoffee, t) ==
  Merge(Merge([userId |-> userId], insertCoffee), [createdAt |-> t])

\* slip: the payload's spread left out of the created document
CreateDataNoSpread(userId, insertCoffee, t) ==
  [userId |-> userId, createdAt |-> t]

\* storage.ts 89-93: the document createCoffee adds to the collection
CreateData(userId, insertCoffee, t) ==
  Merge(Merge(insertCoffee, [userId |-> userId]), [createdAt |-> t])

\* variant: the returned record normalized the way getCoffees does it
ReturnedNormalized(id, insertCoffee) ==
  Merge(Merge([id |-> id], insertCoffee),
        [overallTasteRating |-> normalize(insertCoffee.overallTasteRating)])

\* storage.ts 95-98 and 115: the object createCoffee / updateCoffee return
Returned(id, insertCoffee) == Merge([id |-> id], insertCoffee)

\* slip: createdAt stamped again by the update
UpdateDataStampsCreated(userId, insertCoffee, t) ==
  Merge(Merge(insertCoffee, [userId |-> userId]), [createdAt |-> t, updatedAt |-> t])

\* slip: the spread written after userId, so the payload's userId wins
UpdateDataPayloadWins(userId, insertCoffee, t) ==
  Merge(Merge([userId |-> userId], insertCoffee), [updatedAt |-> t])

\* slip: the payload's spread left out of the update
UpdateDataNoSpread(userId, insertCoffee, t) ==
  [userId |-> userId, updatedAt |-> t]

\* storage.ts 109-113: the fields docRef.update() writes
UpdateData(userId, insertCoffee, t) ==
  Merge(Merge(insertCoffee, [userId |-> userId]), [updatedAt |-> t])

\* slip: the ownership check left out
OwnedByAnyone(data, userId) == TRUE

\* storage.ts 79, 105, 122: the ownership check on a document that exists
OwnedBy(data, userId) == data.userId = userId

\* c.orderDate, undefined read as the falsy value it is
OrderDate(c) == IF "orderDate" \in DOMAIN c THEN c.orderDate ELSE ""

\* storage.ts 54-68: the comparator of coffees.sort
compare(a, b, sortField) ==
  IF sortField = "overallTasteRating"
  THEN LET ra == IF IsNumber(a.overallTasteRating) THEN a.overallTasteRating ELSE 0
           rb == IF IsNumber(b.overallTasteRating) THEN b.overallTasteRating ELSE 0
       IN  rb - ra
  ELSE Minus(getMillis(OrderDate(b)), getMillis(OrderDate(a)))

\* Array.prototype.sort reads a comparator result of NaN as +0
SortCompare(a, b, sortField) ==
  IF compare(a, b, sortField) = NaN THEN 0 ELSE compare(a, b, sortField)

\* slip: an unstable sort, x put in front of the elements it ties with
InsertSortedUnstable(s, x, sortField) ==
  LET k == Cardinality({i \in 1..Len(s) : SortCompare(s[i], x, sortField) < 0})
  IN  SubSeq(s, 1, k) \o <<x>> \o SubSeq(s, k + 1, Len(s))

\* Array.prototype.sort is stable: x, which followed every element of the
\* sorted prefix s in the input, goes behind the elements it does not precede
InsertSorted(s, x, sortField) ==
  LET k == Cardinality({i \in 1..Len(s) : SortCompare(s[i], x, sortField) <= 0})
  IN  SubSeq(s, 1, k) \o <<x>> \o SubSeq(s, k + 1, Len(s))

RECURSIVE SortCoffees(_, _)
SortCoffees(s, sortField) ==
  IF s = <<>> THEN <<>>
  ELSE InsertSorted(SortCoffees(SubSeq(s, 1, Len(s) - 1), sortField),
                    s[Len(s)], sortField)

\* the brandName argument left out (undefined)
NotGiven == "<undefined>"

\* if (brandName): undefined and the empty string are falsy
Truthy(brandName) == brandName \notin {NotGiven, ""}

\* slip: the filter applied to every string given, the empty one too
BrandFilterAnyString(coffees, brandName) ==
  IF brandName # NotGiven
  THEN SelectSeq(coffees, LAMBDA c : c.brandName = brandName)
  ELSE coffees

\* storage.ts 47-49: the in-memory brand filter
BrandFilter(coffees, brandName) ==
  IF Truthy(brandName)
  THEN SelectSeq(coffees, LAMBDA c : c.brandName = brandName)
  ELSE coffees

\* storage.ts 52: the sort field chosen from the sort argument
SortField(sort) ==
  IF sort = "overallTasteRating" THEN "overallTasteRating" ELSE "orderDate"

\* slip: the where() clause left out
QueryIdsAll(store, userId) == DOMAIN store

\* storage.ts 26-28: the documents matched by where('userId', '==', userId)
QueryIds(store, userId) == {i \in DOMAIN store : store[i].userId = userId}

\* the orders in which the store may hand back the matched documents
Orders(S) ==
  {o \in [1..Cardinality(S) -> S] : \A i, j \in 1..Cardinality(S) : o[i] = o[j] => i = j}

\* the comparator orders the records of s consistently: what it reads as
\* equal to the same record it reads as equal to each other
Consistent(s, sortField) ==
  \A i, j, k \in 1..Len(s) :
    (SortCompare(s[i], s[j], sortField) = 0 /\ SortCompare(s[j], s[k], sortField) = 0)
      => SortCompare(s[i], s[k], sortField) = 0

Reorderings(s) ==
  {[k \in 1..Len(s) |-> s[o[k]]] : o \in Orders(1..Len(s))}

\* storage.ts 54-68: what coffees.sort may leave: the stable sort, or, with
\* a comparator that is not consistent, an order the engine is free to choose
SortOutcomes(s, sortField) ==
  IF Consistent(s, sortField) THEN {SortCoffees(s, sortField)} ELSE Reorderings(s)

\* storage.ts 22-71: getCoffees on the snapshot docs[1..n] (ids, in the
\* order the store returned them)
getCoffeesResult(store, docs, sort, brandName) ==
  SortCoffees(BrandFilter([k \in 1..Len(docs) |-> MapDoc(docs[k], store[docs[k]])],
                          brandName),
              SortField(sort))

\* storage.ts 22-71: the lists getCoffees may return on that snapshot
getCoffeesOutcomes(store, docs, sort, brandName) ==
  SortOutcomes(BrandFilter([k \in 1..Len(docs) |-> MapDoc(docs[k], store[docs[k]])],
                           brandName),
               SortField(sort))

\* --------------------------------------------------- routes.ts, pure parts
Undefined == [kind |-> "undefined", status |-> 404]

\* routes.ts 139-151: GET /api/coffees/:id
GetResponse(coffee) ==
  IF coffee = Undefined THEN Undefined
  ELSE [kind |-> "coffee", val |-> coffee, status |-> 200]

\* routes.ts 154-167: POST /api/coffees
CreateResponse(coffee) == [kind |-> "coffee", val |-> coffee, status |-> 201]

\* routes.ts 170-186: PATCH /api/coffees/:id
UpdateResponse(coffee) ==
  IF coffee = Undefined THEN Undefined
  ELSE [kind |-> "coffee", val |-> coffee, status |-> 200]

\* routes.ts 189-201: DELETE /api/coffees/:id
DeleteResponse(deleted) ==
  IF ~deleted THEN [kind |-> "false", status |-> 404]
  ELSE [kind |-> "true", status |-> 204]

\* routes.ts 118-136: GET /api/coffees
ListResponse(coffees) == [kind |-> "list", val |-> coffees, status |-> 200]

\* the catch blocks of the routes
ErrorResponse == [kind |-> "error", status |-> 500]

\* ---------------------------------------------------------------- state
VARIABLES
  db,        \* the coffees collection: document id -> document data
  nextId,    \* the next id the store assigns (ids are never reused)
  inflight,  \* collection queries issued to the store and not yet answered
  pc,        \* per request handler: where it is suspended
  args,      \* per request handler: the storage call it is running
  doc,       \* per request handler: the document it read (doc / !doc.exists)
  ret        \* per request handler: what the route answers

vars == <<db, nextId, inflight, pc, args, doc, ret>>

NoArgs == [op |-> "none"]
NoRet  == [kind |-> "none", status |-> 0]
NoRead == [read |-> FALSE]

\* docRef.get(): the document as the store has it at this instant
ReadDoc(store, id) ==
  IF id \in DOMAIN store
  THEN [read |-> TRUE, exists |-> TRUE, data |-> store[id]]
  ELSE [read |-> TRUE, exists |-> FALSE]

\* what a handler still knows of the document once the guard has run
\* (the source keeps doc only for the checks of lines 75-79, 105 and 122)
Seen(d) ==
  IF d.exists THEN [read |-> TRUE, exists |-> TRUE, userId |-> d.data.userId]
  ELSE d

\* slip: a foreign document answered differently from a missing one
getCoffeeResultForbidden(userId, id, d) ==
  IF ~d.exists THEN Undefined
  ELSE IF ~OwnedBy(d.data, userId) THEN [kind |-> "forbidden", status |-> 403]
  ELSE GetDoc(id, d.data)

\* storage.ts 73-86
getCoffeeResult(userId, id, d) ==
  IF ~d.exists THEN Undefined
  ELSE IF ~OwnedBy(d.data, userId) THEN Undefined
  ELSE GetDoc(id, d.data)

\* slip: the guard without the ownership check
MayWriteIfExists(userId, d) == d.exists

\* storage.ts 105 and 122: the guard of updateCoffee and deleteCoffee
MayWrite(userId, d) == d.exists /\ OwnedBy(d.data, userId)

Init ==
  /\ db = <<>>
  /\ nextId = 1
  /\ inflight = 0
  /\ pc = [p \in Handlers |-> "idle"]
  /\ args = [p \in Handlers |-> NoArgs]
  /\ doc = [p \in Handlers |-> NoRead]
  /\ ret = [p \in Handlers |-> NoRet]

\* the cache the source removed: a query is issued only when none is in flight
IssuedOnMiss(n) == IF n = 0 THEN 1 ELSE n

\* storage.ts 26-28: every call runs db.collection().where().get() itself
\* ("Removed in-memory cache"): one more query is in flight
Issued(n) == n + 1

\* storage.ts 26-28: getCoffees issues its collection query and suspends
GetCoffeesCall(p, userId, sort, brandName) ==
  /\ pc[p] = "idle"
  /\ pc' = [pc EXCEPT ![p] = "list_fetch"]
  /\ args' = [args EXCEPT ![p] = [op |-> "list", userId |-> userId,
                                  sort |-> sort, brandName |-> brandName]]
  /\ inflight' = Issued(inflight)
  /\ UNCHANGED <<db, nextId, doc, ret>>

\* slip: the documents fetched piece by piece, some of them missed
GetCoffeesReturnPartial(p) ==
  /\ pc[p] = "list_fetch"
  /\ \E found \in SUBSET QueryIds(db, args[p].userId) :
       \E docs \in Orders(found) :
         \E coffees \in getCoffeesOutcomes(db, docs, args[p].sort, args[p].brandName) :
           /\ doc' = [doc EXCEPT ![p] = [read |-> TRUE, docs |-> docs]]
           /\ ret' = [ret EXCEPT ![p] = ListResponse(coffees)]
  /\ inflight' = inflight - 1
  /\ pc' = [pc EXCEPT ![p] = "done"]
  /\ UNCHANGED <<db, nextId, args>>

\* slip: the normalized ratings written back to the store while listing
GetCoffeesReturnWriteBack(p) ==
  /\ pc[p] = "list_fetch"
  /\ \E docs \in Orders(QueryIds(db, args[p].userId)) :
       \E coffees \in getCoffeesOutcomes(db, docs, args[p].sort, args[p].brandName) :
         /\ doc' = [doc EXCEPT ![p] = [read |-> TRUE, docs |-> docs]]
         /\ ret' = [ret EXCEPT ![p] = ListResponse(coffees)]
  /\ db' = [i \in DOMAIN db |->
             IF OwnedBy(db[i], args[p].userId)
             THEN Merge(db[i], [overallTasteRating |-> normalize(RawRating(db[i]))])
             ELSE db[i]]
  /\ inflight' = inflight - 1
  /\ pc' = [pc EXCEPT ![p] = "done"]
  /\ UNCHANGED <<nextId, args>>

\* storage.ts 30-70: the query is answered; map, filter, sort, return
GetCoffeesReturn(p) ==
  /\ pc[p] = "list_fetch"
  /\ \E docs \in Orders(QueryIds(db, args[p].userId)) :
       \E coffees \in getCoffeesOutcomes(db, docs, args[p].sort, args[p].brandName) :
         /\ doc' = [doc EXCEPT ![p] = [read |-> TRUE, docs |-> docs]]
         /\ ret' = [ret EXCEPT ![p] = ListResponse(coffees)]
  /\ inflight' = inflight - 1
  /\ pc' = [pc EXCEPT ![p] = "done"]
  /\ UNCHANGED <<db, nextId, args>>

\* storage.ts 73-86
GetCoffee(p, userId, id) ==
  /\ pc[p] = "idle"
  /\ args' = [args EXCEPT ![p] = [op |-> "get", userId |-> userId, id |-> id]]
  /\ doc' = [doc EXCEPT ![p] = Seen(ReadDoc(db, id))]
  /\ ret' = [ret EXCEPT ![p] = GetResponse(getCoffeeResult(userId, id, ReadDoc(db, id)))]
  /\ pc' = [pc EXCEPT ![p] = "done"]
  /\ UNCHANGED <<db, nextId, inflight>>

\* storage.ts 88-99
CreateCoffee(p, userId, insertCoffee, t) ==
  /\ pc[p] = "idle"
  /\ nextId \in DocIds
  /\ db' = [i \in (DOMAIN db) \cup {nextId} |->
              IF i = nextId THEN CreateData(userId, insertCoffee, t) ELSE db[i]]
  /\ nextId' = nextId + 1
  /\ args' = [args EXCEPT ![p] = [op |-> "create", userId |-> userId,
                                  id |-> nextId, input |-> insertCoffee]]
  /\ ret' = [ret EXCEPT ![p] = CreateResponse(Returned(nextId, insertCoffee))]
  /\ pc' = [pc EXCEPT ![p] = "done"]
  /\ UNCHANGED <<inflight, doc>>

\* storage.ts 101-107: updateCoffee reads the document and checks the owner
UpdateCoffeeRead(p, userId, id, insertCoffee) ==
  /\ pc[p] = "idle"
  /\ args' = [args EXCEPT ![p] = [op |-> "update", userId |-> userId,
                                  id |-> id, input |-> insertCoffee]]
  /\ doc' = [doc EXCEPT ![p] = Seen(ReadDoc(db, id))]
  /\ IF MayWrite(userId, ReadDoc(db, id))
     THEN /\ pc' = [pc EXCEPT ![p] = "update_write"]
          /\ ret' = ret
     ELSE /\ pc' = [pc EXCEPT ![p] = "done"]
          /\ ret' = [ret EXCEPT ![p] = UpdateResponse(Undefined)]
  /\ UNCHANGED <<db, nextId, inflight>>

\* slip: the write done with set(..., {merge: true}), which creates the
\* document when it is gone
UpdateCoffeeWriteUpsert(p, t) ==
  /\ pc[p] = "update_write"
  /\ db' = [i \in (DOMAIN db) \cup {args[p].id} |->
             IF i # args[p].id THEN db[i]
             ELSE IF i \in DOMAIN db
                  THEN Merge(db[i], UpdateData(args[p].userId, args[p].input, t))
                  ELSE UpdateData(args[p].userId, args[p].input, t)]
  /\ ret' = [ret EXCEPT ![p] = UpdateResponse(Returned(args[p].id, args[p].input))]
  /\ pc' = [pc EXCEPT ![p] = "done"]
  /\ UNCHANGED <<nextId, inflight, args, doc>>

\* slip: the write done with set(), which replaces the whole document
UpdateCoffeeWriteReplace(p, t) ==
  /\ pc[p] = "update_write"
  /\ IF args[p].id \in DOMAIN db
     THEN /\ db' = [db EXCEPT ![args[p].id] =
                      UpdateData(args[p].userId, args[p].input, t)]
          /\ ret' = [ret EXCEPT ![p] =
                      UpdateResponse(Returned(args[p].id, args[p].input))]
     ELSE /\ db' = db
          /\ ret' = [ret EXCEPT ![p] = ErrorResponse]
  /\ pc' = [pc EXCEPT ![p] = "done"]
  /\ UNCHANGED <<nextId, inflight, args, doc>>

\* storage.ts 109-115: docRef.update() merges the fields into the document,
\* and rejects when the document is gone
UpdateCoffeeWrite(p, t) ==
  /\ pc[p] = "update_write"
  /\ IF args[p].id \in DOMAIN db
     THEN /\ db' = [db EXCEPT ![args[p].id] =
                      Merge(@, UpdateData(args[p].userId, args[p].input, t))]
          /\ ret' = [ret EXCEPT ![p] =
                      UpdateResponse(Returned(args[p].id, args[p].input))]
     ELSE /\ db' = db
          /\ ret' = [ret EXCEPT ![p] = ErrorResponse]
  /\ pc' = [pc EXCEPT ![p] = "done"]
  /\ UNCHANGED <<nextId, inflight, args, doc>>

\* storage.ts 118-124: deleteCoffee reads the document and checks the owner
DeleteCoffeeRead(p, userId, id) ==
  /\ pc[p] = "idle"
  /\ args' = [args EXCEPT ![p] = [op |-> "delete", userId |-> userId, id |-> id]]
  /\ doc' = [doc EXCEPT ![p] = Seen(ReadDoc(db, id))]
  /\ IF MayWrite(userId, ReadDoc(db, id))
     THEN /\ pc' = [pc EXCEPT ![p] = "delete_write"]
          /\ ret' = ret
     ELSE /\ pc' = [pc EXCEPT ![p] = "done"]
          /\ ret' = [ret EXCEPT ![p] = DeleteResponse(FALSE)]
  /\ UNCHANGED <<db, nextId, inflight>>

\* storage.ts 126-127: docRef.delete() succeeds whether or not the document
\* is still there
DeleteCoffeeWrite(p) ==
  /\ pc[p] = "delete_write"
  /\ db' = [i \in (DOMAIN db) \ {args[p].id} |-> db[i]]
  /\ ret' = [ret EXCEPT ![p] = DeleteResponse(TRUE)]
  /\ pc' = [pc EXCEPT ![p] = "done"]
  /\ UNCHANGED <<nextId, inflight, args, doc>>

\* the response has been sent; the handler is free for the next request
Respond(p) ==
  /\ pc[p] = "done"
  /\ pc' = [pc EXCEPT ![p] = "idle"]
  /\ args' = [args EXCEPT ![p] = NoArgs]
  /\ doc' = [doc EXCEPT ![p] = NoRead]
  /\ ret' = [ret EXCEPT ![p] = NoRet]
  /\ UNCHANGED <<db, nextId, inflight>>

\* the requests of the handlers in P, with payloads drawn from In
Step(P, In, N, T) ==
  \/ \E p \in P, u \in Users, s \in SortKeys, b \in Brands \cup {NoBrand} :
       GetCoffeesCall(p, u, s, b)
  \/ \E p \in P : GetCoffeesReturn(p)
  \/ \E p \in P, u \in Users, i \in 1..N : GetCoffee(p, u, i)
  \/ \E p \in P, u \in Users, c \in In, t \in T : nextId <= N /\ CreateCoffee(p, u, c, t)
  \/ \E p \in P, u \in Users, i \in 1..N, c \in In : UpdateCoffeeRead(p, u, i, c)
  \/ \E p \in P, t \in T : UpdateCoffeeWrite(p, t)
  \/ \E p \in P, u \in Users, i \in 1..N : DeleteCoffeeRead(p, u, i)
  \/ \E p \in P : DeleteCoffeeWrite(p)
  \/ \E p \in P : Respond(p)

\* requests overlap: every handler takes requests
Next == Step(Handlers, FewInputs, MaxDocs, Times)

Spec == Init /\ [][Next]_vars

\* one request at a time, over the larger set of payloads
SeqNext == Step({"h1"}, Inputs, SeqDocs, Times)

SeqSpec == Init /\ [][SeqNext]_vars

\* ------------------------------------------------ the normalizer on its own
\* Ratings a document written before the 5-point scale may hold: every half
\* step from 0 to MaxRaw, or no number at all
RawRatings == {NotNumber} \cup {4 * k : k \in 0..(2 * MaxRaw)}

LegacyDocs ==
  LET base(b) == [brandName |-> b, orderDate |-> "2024-01-01", userId |-> "u1"]
  IN  {Merge(base(b), [overallTasteRating |-> x]) : b \in Brands, x \in RawRatings}
      \cup {base(b) : b \in Brands}
      \cup {Merge(base(b), [overallTasteRating |-> x, coffeeName |-> "House"]) :
               b \in Brands, x \in {R(3), R(8)}}

NormInit ==
  /\ \E d \in LegacyDocs : db = <<d>>
  /\ nextId = 2
  /\ inflight = 0
  /\ pc = [p \in Handlers |-> "idle"]
  /\ args = [p \in Handlers |-> NoArgs]
  /\ doc = [p \in Handlers |-> NoRead]
  /\ ret = [p \in Handlers |-> NoRet]

\* the listed records are put through lines 30-44 once more
Renormalize(p) ==
  /\ pc[p] = "done"
  /\ ret[p].kind = "list"
  /\ ret' = [ret EXCEPT ![p] =
               [kind |-> "relist", once |-> ret[p].val, status |-> 200,
                val |-> [k \in 1..Len(ret[p].val) |->
                           MapDoc(ret[p].val[k].id, ret[p].val[k])]]]
  /\ UNCHANGED <<db, nextId, inflight, pc, args, doc>>

NormNext ==
  \/ \E s \in SortKeys, b \in Brands \cup {NoBrand} : GetCoffeesCall("h1", "u1", s, b)
  \/ GetCoffeesReturn("h1")
  \/ Renormalize("h1")
  \/ Respond("h1")

NormSpec == NormInit /\ [][NormNext]_vars

\* ---------------------------------------------------- the sort on its own
\* Documents of u1 as the collection may hold them: the order date missing,
\* before 1970, in 2024 or not a date at all ("soon" passes the schema's
\* z.string().min(1)); the rating missing
SortDocs ==
  LET base == [brandName |-> "Illy", userId |-> "u1"]
  IN  {Merge(base, [overallTasteRating |-> R(3)])}
      \cup {Merge(base, [overallTasteRating |-> R(3), orderDate |-> d]) :
               d \in {"1960-01-01", "2024-01-01", "2024-02-01", "soon"}}
      \cup {Merge(base, [orderDate |-> "2024-01-01"])}
      \cup {Merge(base, [orderDate |-> "2024-01-01", overallTasteRating |-> R(8)])}

SortInit ==
  /\ db \in UNION {[1..n -> SortDocs] : n \in 0..SortLen}
  /\ nextId = Len(db) + 1
  /\ inflight = 0
  /\ pc = [p \in Handlers |-> "idle"]
  /\ args = [p \in Handlers |-> NoArgs]
  /\ doc = [p \in Handlers |-> NoRead]
  /\ ret = [p \in Handlers |-> NoRet]

SortNext ==
  \/ \E s \in SortKeys, b \in Brands \cup {NoBrand} : GetCoffeesCall("h1", "u1", s, b)
  \/ GetCoffeesReturn("h1")
  \/ Respond("h1")

SortSpec == SortInit /\ [][SortNext]_vars

\* ------------------------------------------------------ reads on their own
\* slip: the failure swallowed and an empty list answered
GetCoffeesFailEmpty(p) ==
  /\ pc[p] = "list_fetch"
  /\ ret' = [ret EXCEPT ![p] = ListResponse(<<>>)]
  /\ inflight' = inflight - 1
  /\ pc' = [pc EXCEPT ![p] = "done"]
  /\ UNCHANGED <<db, nextId, args, doc>>

\* storage.ts 26-28 with routes.ts 132-135: the collection query rejects;
\* getCoffees throws and the route answers 500
GetCoffeesFail(p) ==
  /\ pc[p] = "list_fetch"
  /\ ret' = [ret EXCEPT ![p] = ErrorResponse]
  /\ inflight' = inflight - 1
  /\ pc' = [pc EXCEPT ![p] = "done"]
  /\ UNCHANGED <<db, nextId, args, doc>>

\* the collection after up to MaxDocs successful creates
Stores ==
  LET Docs == {CreateData(u, c, t) : u \in Users, c \in Inputs, t \in Times}
  IN  UNION {[1..n -> Docs] : n \in 0..MaxDocs}

ReadInit ==
  /\ db \in Stores
  /\ nextId = Len(db) + 1
  /\ inflight = 0
  /\ pc = [p \in Handlers |-> "idle"]
  /\ args = [p \in Handlers |-> NoArgs]
  /\ doc = [p \in Handlers |-> NoRead]
  /\ ret = [p \in Handlers |-> NoRet]

\* only GET requests arrive, overlapping, and the store may reject a query
ReadNext ==
  \/ \E p \in Handlers, u \in Users, s \in SortKeys, b \in Brands \cup {NoBrand} :
       GetCoffeesCall(p, u, s, b)
  \/ \E p \in Handlers : GetCoffeesReturn(p)
  \/ \E p \in Handlers : GetCoffeesFail(p)
  \/ \E p \in Handlers, u \in Users, i \in 1..MaxDocs : GetCoffee(p, u, i)
  \/ \E p \in Handlers : Respond(p)

ReadSpec == ReadInit /\ [][ReadNext]_vars

\* ------------------------------------------------- the list route's query
\* req.query.sort and req.query.brand as Express hands them over: a string,
\* an array (the parameter given twice) or undefined (not given)
QueryValues(strings) ==
  {[type |-> "string", val |-> v] : v \in strings}
    \cup {[type |-> "array"], [type |-> "undefined"]}

\* routes.ts 125: typeof req.query.brand === 'string' ? req.query.brand : undefined
BrandParam(q) == IF q.type = "string" THEN q.val ELSE NotGiven

\* routes.ts 123 and 128: the sort key chosen from req.query.sort
SortKey(q) ==
  IF q.type = "string" /\ q.val = "overallTasteRating"
  THEN "overallTasteRating" ELSE "orderDate"

\* routes.ts 118-131: GET /api/coffees up to the storage call
ListRoute(p, userId, sortQuery, brandQuery) ==
  GetCoffeesCall(p, userId, SortKey(sortQuery), BrandParam(brandQuery))

\* one list request at a time on a filled collection, with any query
QueryNext ==
  \/ \E u \in Users,
        sq \in QueryValues({"overallTasteRating", "orderDate", "price"}),
        bq \in QueryValues(Brands \cup {"", "illy"}) :
       ListRoute("h1", u, sq, bq)
  \/ GetCoffeesReturn("h1")
  \/ Respond("h1")

QuerySpec == ReadInit /\ [][QueryNext]_vars

\* ------------------------------------------- documents of earlier versions
\* one request at a time on a collection that holds a document written by
\* an earlier version of the application: reads, and updates of it
LegacyNext ==
  \/ \E u \in Users, s \in SortKeys, b \in Brands \cup {NoBrand} :
       GetCoffeesCall("h1", u, s, b)
  \/ GetCoffeesReturn("h1")
  \/ \E u \in Users : GetCoffee("h1", u, 1)
  \/ \E u \in Users, c \in Inputs : UpdateCoffeeRead("h1", u, 1, c)
  \/ \E t \in Times : UpdateCoffeeWrite("h1", t)
  \/ Respond("h1")

LegacySpec == NormInit /\ [][LegacyNext]_vars

\* ------------------------------------------------------- the time stamps
\* the values new Date() takes at the writes
StampTimes == {1, 2}

\* one request at a time, the clock moving between the writes
StampNext == Step({"h1"}, FewInputs, MaxDocs, StampTimes)

StampSpec == Init /\ [][StampNext]_vars

\* ------------------------------------------------- the store rejects a write
\* storage.ts 89-93 with routes.ts 160-166: collection.add() rejects;
\* createCoffee throws and the route answers 500
CreateCoffeeFail(p, userId, insertCoffee) ==
  /\ pc[p] = "idle"
  /\ args' = [args EXCEPT ![p] =
               [op |-> "create", userId |-> userId, input |-> insertCoffee]]
  /\ ret' = [ret EXCEPT ![p] = ErrorResponse]
  /\ pc' = [pc EXCEPT ![p] = "done"]
  /\ UNCHANGED <<db, nextId, inflight, doc>>

\* storage.ts 109-113 with routes.ts 179-185: docRef.update() rejects
UpdateCoffeeWriteFail(p) ==
  /\ pc[p] = "update_write"
  /\ ret' = [ret EXCEPT ![p] = ErrorResponse]
  /\ pc' = [pc EXCEPT ![p] = "done"]
  /\ UNCHANGED <<db, nextId, inflight, args, doc>>

\* storage.ts 126 with routes.ts 198-200: docRef.delete() rejects
DeleteCoffeeWriteFail(p) ==
  /\ pc[p] = "delete_write"
  /\ ret' = [ret EXCEPT ![p] = ErrorResponse]
  /\ pc' = [pc EXCEPT ![p] = "done"]
  /\ UNCHANGED <<db, nextId, inflight, args, doc>>

\* slip: the rejected read caught and answered as a missing document
GetCoffeeFailAsNotFound(p, userId, id) ==
  /\ pc[p] = "idle"
  /\ args' = [args EXCEPT ![p] = [op |-> "get", userId |-> userId, id |-> id]]
  /\ ret' = [ret EXCEPT ![p] = GetResponse(Undefined)]
  /\ pc' = [pc EXCEPT ![p] = "done"]
  /\ UNCHANGED <<db, nextId, inflight, doc>>

\* storage.ts 74-75 with routes.ts 148-150: docRef.get() rejects in getCoffee
GetCoffeeFail(p, userId, id) ==
  /\ pc[p] = "idle"
  /\ args' = [args EXCEPT ![p] = [op |-> "get", userId |-> userId, id |-> id]]
  /\ ret' = [ret EXCEPT ![p] = ErrorResponse]
  /\ pc' = [pc EXCEPT ![p] = "done"]
  /\ UNCHANGED <<db, nextId, inflight, doc>>

\* storage.ts 102-103 with routes.ts 179-185: docRef.get() rejects in updateCoffee
UpdateCoffeeReadFail(p, userId, id, insertCoffee) ==
  /\ pc[p] = "idle"
  /\ args' = [args EXCEPT ![p] =
               [op |-> "update", userId |-> userId, id |-> id, input |-> insertCoffee]]
  /\ ret' = [ret EXCEPT ![p] = ErrorResponse]
  /\ pc' = [pc EXCEPT ![p] = "done"]
  /\ UNCHANGED <<db, nextId, inflight, doc>>

\* storage.ts 119-120 with routes.ts 198-200: docRef.get() rejects in deleteCoffee
DeleteCoffeeReadFail(p, userId, id) ==
  /\ pc[p] = "idle"
  /\ args' = [args EXCEPT ![p] = [op |-> "delete", userId |-> userId, id |-> id]]
  /\ ret' = [ret EXCEPT ![p] = ErrorResponse]
  /\ pc' = [pc EXCEPT ![p] = "done"]
  /\ UNCHANGED <<db, nextId, inflight, doc>>

\* one request at a time, and any store call may reject
FailNext ==
  \/ Step({"h1"}, Inputs, MaxDocs, Times)
  \/ \E u \in Users, c \in Inputs : CreateCoffeeFail("h1", u, c)
  \/ UpdateCoffeeWriteFail("h1")
  \/ DeleteCoffeeWriteFail("h1")
  \/ GetCoffeesFail("h1")
  \/ \E u \in Users, i \in 1..MaxDocs : GetCoffeeFail("h1", u, i)
  \/ \E u \in Users, i \in 1..MaxDocs, c \in Inputs : UpdateCoffeeReadFail("h1", u, i, c)
  \/ \E u \in Users, i \in 1..MaxDocs : DeleteCoffeeReadFail("h1", u, i)

FailSpec == Init /\ [][FailNext]_vars

\* ------------------------------------------------ the routes' validation
\* schema.ts 5-10: the fields declared z.string().min(1)
TextFields == {"brandName", "quantity", "orderDate", "roast", "formFactor", "notes"}

\* schema.ts 11-14: the fields declared z.number().min(1).max(10)
RatingFields ==
  {"bitternessRating", "acidityRating", "noteClarityRating", "overallTasteRating"}

\* schema.ts 4-16: the keys of insertCoffeeSchema
SchemaKeys == TextFields \cup RatingFields \cup {"worthReordering"}

\* z.string().min(1) on key k
MinText(body, k) == k \in DOMAIN body /\ body[k] # ""

\* slip: the upper limit of a number left unchecked
InRangeNoMax(body, k, lo, hi) ==
  k \in DOMAIN body /\ IsNumber(body[k]) /\ lo <= body[k]

\* z.number().min(lo).max(hi) on key k
InRange(body, k, lo, hi) ==
  k \in DOMAIN body /\ IsNumber(body[k]) /\ lo <= body[k] /\ body[k] <= hi

\* schema.ts 4-16: insertCoffeeSchema.parse(body) does not throw
Valid(body) ==
  /\ \A k \in TextFields : MinText(body, k)
  /\ \A k \in RatingFields : InRange(body, k, R(1), R(10))
  /\ InRange(body, "worthReordering", R(0), R(1))

\* schema.ts 4: what parse() returns; z.object() drops the keys it does not know
parse(body) == [k \in (DOMAIN body) \cap SchemaKeys |-> body[k]]

\* routes.ts 162-164 and 181-183: the answer to a ZodError
ValidationResponse == [kind |-> "invalid", status |-> 400]

\* a request body the schema accepts
Body(b, r) ==
  [brandName |-> b, quantity |-> "250", orderDate |-> "2024-01-01",
   roast |-> "Dark", formFactor |-> "Beans", notes |-> "Nutty",
   bitternessRating |-> R(5), acidityRating |-> R(5), noteClarityRating |-> R(5),
   overallTasteRating |-> r, worthReordering |-> R(1)]

Without(body, k) == [j \in (DOMAIN body) \ {k} |-> body[j]]

\* request bodies: accepted ones, one of them with keys the schema does not
\* know (the client sends back the whole record, owner included), and bodies with one field missing, empty, not a number or out of range
Bodies ==
  LET good == Body("Illy", R(6))
  IN  {good, Body("Lavazza", R(10)), Merge(Body("Illy", R(1)), [coffeeName |-> "House", userId |-> "u2"])}
      \cup {Without(good, k) : k \in SchemaKeys}
      \cup {Merge(good, [j \in {k} |-> ""]) : k \in TextFields}
      \cup {Merge(good, [j \in {k} |-> x]) :
               k \in RatingFields, x \in {R(0), R(1) - 1, R(10) + 1, R(11), NotNumber}}
      \cup {Merge(good, [worthReordering |-> x]) : x \in {R(1) + 1, R(2), NotNumber}}

\* routes.ts 154-167: POST /api/coffees with a body parse() throws on
PostCoffeeInvalid(p, userId, body) ==
  /\ pc[p] = "idle"
  /\ ~Valid(body)
  /\ args' = [args EXCEPT ![p] = [op |-> "create", userId |-> userId, body |-> body]]
  /\ ret' = [ret EXCEPT ![p] = ValidationResponse]
  /\ pc' = [pc EXCEPT ![p] = "done"]
  /\ UNCHANGED <<db, nextId, inflight, doc>>

\* routes.ts 170-186: PATCH /api/coffees/:id with a body parse() throws on
PatchCoffeeInvalid(p, userId, id, body) ==
  /\ pc[p] = "idle"
  /\ ~Valid(body)
  /\ args' = [args EXCEPT ![p] =
               [op |-> "update", userId |-> userId, id |-> id, body |-> body]]
  /\ ret' = [ret EXCEPT ![p] = ValidationResponse]
  /\ pc' = [pc EXCEPT ![p] = "done"]
  /\ UNCHANGED <<db, nextId, inflight, doc>>

\* one request at a time; POST and PATCH carry any of Bodies, and the
\* storage is called with what parse() returns
RouteNext ==
  \/ Step({"h1"}, {parse(b) : b \in {x \in Bodies : Valid(x)}}, MaxDocs, Times)
  \/ \E u \in Users, b \in Bodies : PostCoffeeInvalid("h1", u, b)
  \/ \E u \in Users, i \in 1..MaxDocs, b \in Bodies : PatchCoffeeInvalid("h1", u, i, b)

RouteSpec == Init /\ [][RouteNext]_vars

\* ------------------------------------------------------ whole records, overlapping
\* what the routes hand to the storage for two accepted bodies
TripInputs == {parse(Body("Illy", R(6))), parse(Body("Lavazza", R(10)))}

\* overlapping requests that carry every field of the schema
TripNext == Step(Handlers, TripInputs, TripDocs, Times)

TripSpec == Init /\ [][TripNext]_vars

\* ------------------------------------------------------ a payload key named id
\* a value of a key id that is no document id of the store
ForeignId == 99

\* storage.ts 88, 101: payloads as the storage layer is handed them, one of
\* them with a key named id
IdInputs ==
  { Payload("Illy", R(4), "2024-01-01"),
    Merge(Payload("Illy", R(4), "2024-02-01"), [id |-> ForeignId]) }

\* one request at a time
IdNext == Step({"h1"}, IdInputs, MaxDocs, Times)

IdSpec == Init /\ [][IdNext]_vars

\* ------------------------------------------------------ requests without a session
\* req.user of a request that carries no authenticated session
NoSession == "<none>"

\* routes.ts 119, 140, 155, 171, 190: the answer when !req.isAuthenticated()
UnauthorizedResponse == [kind |-> "unauthorized", status |-> 401]

Routes == {"list", "get", "create", "update", "delete"}

\* slip: the list route without its session check
UnauthenticatedListPasses(p, op) ==
  IF op = "list"
  THEN GetCoffeesCall(p, NoSession, "orderDate", NotGiven)
  ELSE /\ pc[p] = "idle"
       /\ args' = [args EXCEPT ![p] = [op |-> op, userId |-> NoSession]]
       /\ ret' = [ret EXCEPT ![p] = UnauthorizedResponse]
       /\ pc' = [pc EXCEPT ![p] = "done"]
       /\ UNCHANGED <<db, nextId, inflight, doc>>

\* routes.ts 119, 140, 155, 171, 190: a request to route op without a
\* session is answered before anything else is looked at
Unauthenticated(p, op) ==
  /\ pc[p] = "idle"
  /\ args' = [args EXCEPT ![p] = [op |-> op, userId |-> NoSession]]
  /\ ret' = [ret EXCEPT ![p] = UnauthorizedResponse]
  /\ pc' = [pc EXCEPT ![p] = "done"]
  /\ UNCHANGED <<db, nextId, inflight, doc>>

\* one request at a time, with or without a session
AuthNext ==
  \/ RouteNext
  \/ \E op \in Routes : Unauthenticated("h1", op)

AuthSpec == Init /\ [][AuthNext]_vars

\* ================================================================ claims
IdOps == {"get", "update", "delete"}

\* the answer of an id-addressed operation that found nothing to act on
NotFound(op) == IF op = "delete" THEN DeleteResponse(FALSE) ELSE Undefined

Foreign(p) == doc[p].read /\ doc[p].exists /\ doc[p].userId # args[p].userId
Missing(p) == doc[p].read /\ ~doc[p].exists

\* C1: whenever get, update or delete is called by an identity other than
\* the owner of the document it addresses, the call answers NotFound
\* (undefined / false, HTTP 404) and never proceeds to the write.
C1_NonOwnerNotFound ==
  \A p \in Handlers :
    (args[p].op \in IdOps /\ Foreign(p)) =>
      /\ pc[p] = "done"
      /\ ret[p] = NotFound(args[p].op)
      /\ ret[p].status = 404

C1_Witness ==
  \E p, q \in Handlers :
    /\ pc[p] = "done" /\ args[p].op = "update" /\ Foreign(p)
    /\ pc[q] = "done" /\ args[q].op = "delete" /\ Foreign(q)
    /\ args[p].id \in DOMAIN db

\* C2: every record a list call returns carries the caller's userId, for
\* every sort key and brand filter, whatever the other owners have stored.
C2_ListOnlyOwn ==
  \A p \in Handlers :
    (pc[p] = "done" /\ args[p].op = "list") =>
      \A k \in 1..Len(ret[p].val) : ret[p].val[k].userId = args[p].userId

C2_Witness ==
  \E p \in Handlers :
    /\ pc[p] = "done" /\ args[p].op = "list"
    /\ Len(ret[p].val) > 0
    /\ \E i \in DOMAIN db : db[i].userId # args[p].userId

\* C3: a caller cannot tell a foreign document from a missing one.  Two
\* handlers that ran the same operation for the same identity, one on a
\* foreign document and one on a missing id, hold the same answer; and on
\* every reachable store, get answers the same with the foreign document
\* there as with it removed.  No answer is ever a 403.
C3_ForeignLikeMissing ==
  /\ \A p, q \in Handlers :
       ( /\ pc[p] = "done" /\ pc[q] = "done"
         /\ args[p].op \in IdOps /\ args[q].op = args[p].op
         /\ args[q].userId = args[p].userId
         /\ Foreign(p) /\ Missing(q) ) => ret[p] = ret[q]
  /\ \A u \in Users, i \in DOMAIN db :
       db[i].userId # u =>
         LET without == [j \in (DOMAIN db) \ {i} |-> db[j]]
         IN  /\ GetResponse(getCoffeeResult(u, i, ReadDoc(db, i)))
                 = GetResponse(getCoffeeResult(u, i, ReadDoc(without, i)))
             /\ MayWrite(u, ReadDoc(db, i)) = MayWrite(u, ReadDoc(without, i))
  /\ \A p \in Handlers : ret[p].status # 403

C3_Witness ==
  \E p, q \in Handlers :
    /\ pc[p] = "done" /\ pc[q] = "done"
    /\ args[p].op = "get" /\ args[q].op = "get"
    /\ args[q].userId = args[p].userId
    /\ Foreign(p) /\ Missing(q)

\* C4: the document createCoffee stores carries the caller's userId, also
\* when the payload has a userId of its own that differs.
C4_CreateStampsCaller ==
  \A p \in Handlers :
    (pc[p] = "done" /\ args[p].op = "create" /\ args[p].id \in DOMAIN db) =>
      db[args[p].id].userId = args[p].userId

C4_Witness ==
  \E p \in Handlers :
    /\ pc[p] = "done" /\ args[p].op = "create" /\ args[p].id \in DOMAIN db
    /\ "userId" \in DOMAIN args[p].input
    /\ args[p].input.userId # args[p].userId

\* the 5-point value of a stored rating, by the rule of the specification:
\* above 5 it is halved, otherwise it stands
Canonical(r) == IF r # NotNumber /\ r > R(5) THEN r \div 2 ELSE r

Relisted(p) == pc[p] = "done" /\ ret[p].kind = "relist"

\* C5 as stated: normalizing the normalized record changes nothing, for
\* every stored value.
C5_IdempotentAll ==
  \A p \in Handlers :
    Relisted(p) =>
      \A k \in 1..Len(ret[p].val) :
        ret[p].val[k].overallTasteRating = ret[p].once[k].overallTasteRating

\* C5 amended: normalizing the normalized record changes nothing when the
\* stored value is not a number or is at most 10; it leaves every other
\* field alone for every stored value.
C5_IdempotentUpTo10 ==
  \A p \in Handlers :
    Relisted(p) =>
      \A k \in 1..Len(ret[p].val) :
        LET raw == RawRating(db[ret[p].once[k].id])
        IN  /\ raw <= R(10) => ret[p].val[k] = ret[p].once[k]
            /\ \A f \in DOMAIN ret[p].once[k] :
                 f # "overallTasteRating" => ret[p].val[k][f] = ret[p].once[k][f]

C5_Witness ==
  \E p \in Handlers :
    /\ Relisted(p) /\ Len(ret[p].val) = 1
    /\ RawRating(db[1]) = R(9)
    /\ ret[p].once[1].overallTasteRating = R(9) \div 2
    /\ ret[p].val[1].overallTasteRating = R(9) \div 2

\* C6: the listed rating is half the stored one when the stored one is a
\* number above 5 and the stored one itself otherwise (5 and below are not
\* converted); every field of the stored document other than the rating is
\* listed unchanged.
C6_ThresholdRule ==
  \A p \in Handlers :
    (pc[p] = "done" /\ ret[p].kind = "list") =>
      \A k \in 1..Len(ret[p].val) :
        LET c    == ret[p].val[k]
            data == db[c.id]
            raw  == RawRating(data)
        IN  /\ (raw # NotNumber /\ raw > R(5)) => 2 * c.overallTasteRating = raw
            /\ (raw = NotNumber \/ raw <= R(5)) => c.overallTasteRating = raw
            /\ \A f \in DOMAIN data :
                 f # "overallTasteRating" => c[f] = data[f]

C6_Witness ==
  \E p \in Handlers :
    /\ pc[p] = "done" /\ ret[p].kind = "list" /\ Len(ret[p].val) = 1
    /\ RawRating(db[1]) = R(5)
    /\ ret[p].val[1].overallTasteRating = R(5)
    /\ ret[p].val[1].brandName = db[1].brandName

Created(p) == pc[p] = "done" /\ args[p].op = "create"

\* C7 as stated: the record createCoffee returns carries the canonical
\* rating (half the input above 5, the input otherwise).
C7_CreateReturnsCanonical ==
  \A p \in Handlers :
    Created(p) =>
      ret[p].val.overallTasteRating = Canonical(args[p].input.overallTasteRating)

\* C7 amended: the record createCoffee returns carries the input rating
\* unchanged, above 5 as well as below (9 comes back as 9, 4 as 4), and the
\* stored document holds that same raw value.
C7_CreateReturnsInput ==
  \A p \in Handlers :
    Created(p) =>
      /\ ret[p].val.overallTasteRating = args[p].input.overallTasteRating
      /\ ret[p].val.id = args[p].id
      /\ args[p].id \in DOMAIN db =>
           db[args[p].id].overallTasteRating = args[p].input.overallTasteRating

C7_Witness ==
  \E p \in Handlers :
    /\ Created(p)
    /\ args[p].input.overallTasteRating = R(9)
    /\ ret[p].val.overallTasteRating = R(9)

Listed(p) == pc[p] = "done" /\ args[p].op = "list" /\ ret[p].kind = "list"

\* the sort-key value of a listed record
KeyOf(c, sort) ==
  IF sort = "overallTasteRating" THEN c.overallTasteRating ELSE getMillis(c.orderDate)

\* the place of document id in the order the store returned
PlaceOf(docs, id) == CHOOSE k \in 1..Len(docs) : docs[k] = id

\* C8 as stated: listed records with equal sort-key values appear in
\* ascending id order.
C8_TiesByAscendingId ==
  \A p \in Handlers :
    Listed(p) =>
      \A k, l \in 1..Len(ret[p].val) :
        (k < l /\ KeyOf(ret[p].val[k], args[p].sort) = KeyOf(ret[p].val[l], args[p].sort))
          => ret[p].val[k].id < ret[p].val[l].id

\* C8 amended: listed records with equal sort-key values appear in the
\* order in which the store returned them; the list is the stable
\* descending sort of what the store returned.
C8_TiesByStoreOrder ==
  \A p \in Handlers :
    Listed(p) =>
      \A k, l \in 1..Len(ret[p].val) :
        k < l =>
          /\ KeyOf(ret[p].val[k], args[p].sort) >= KeyOf(ret[p].val[l], args[p].sort)
          /\ KeyOf(ret[p].val[k], args[p].sort) = KeyOf(ret[p].val[l], args[p].sort)
               => PlaceOf(doc[p].docs, ret[p].val[k].id)
                    < PlaceOf(doc[p].docs, ret[p].val[l].id)

C8_Witness ==
  \E p \in Handlers :
    /\ Listed(p) /\ Len(ret[p].val) = 3
    /\ \E k \in 1..2 :
         /\ KeyOf(ret[p].val[k], args[p].sort) = KeyOf(ret[p].val[k + 1], args[p].sort)
         /\ ret[p].val[k].id > ret[p].val[k + 1].id

\* C9: a list by overallTasteRating is in non-increasing order of the
\* canonical rating of the stored documents (not of the stored value), a
\* list by orderDate is in non-increasing order of the date, and the list
\* of an identity that owns no document is empty.
C9_ListOrder ==
  \A p \in Handlers :
    Listed(p) =>
      /\ \A k, l \in 1..Len(ret[p].val) :
           k < l =>
             LET a == db[ret[p].val[k].id]
                 b == db[ret[p].val[l].id]
             IN  IF args[p].sort = "overallTasteRating"
                 THEN Canonical(a.overallTasteRating) >= Canonical(b.overallTasteRating)
                 ELSE getMillis(a.orderDate) >= getMillis(b.orderDate)
      /\ (\A i \in DOMAIN db : db[i].userId # args[p].userId) => ret[p].val = <<>>

C9_Witness ==
  \E p \in Handlers :
    /\ Listed(p) /\ args[p].sort = "overallTasteRating" /\ Len(ret[p].val) = 3
    /\ db[ret[p].val[1].id].overallTasteRating = R(9)
    /\ db[ret[p].val[2].id].overallTasteRating = R(4)
    /\ db[ret[p].val[3].id].overallTasteRating = R(6)

Fetching == {p \in Handlers : pc[p] = "list_fetch"}

\* C10 as stated: at most one collection fetch is in flight at any time.
C10_SingleFetch == inflight <= 1

\* C10 amended: every list call issues its own collection query; with N
\* callers waiting there are N queries in flight, one for each.
C10_FetchPerCaller == inflight = Cardinality(Fetching)

C10_Witness == Cardinality(Fetching) = 2 /\ inflight = 2

\* handler p starts a list call in this step
ListCall(p) == pc[p] = "idle" /\ pc'[p] = "list_fetch"

\* C11 as stated: with no write in between, a list call that follows a
\* completed list is served without a store fetch.
C11_SecondListNoFetch ==
  [][\A p \in Handlers :
       (ListCall(p) /\ \E q \in Handlers : Listed(q)) => inflight' = inflight]_vars

\* C11 amended: every list call issues a store fetch of its own, also when
\* a list has completed before it and nothing was written since.
C11_FetchPerCall ==
  [][\A p \in Handlers : ListCall(p) => inflight' = inflight + 1]_vars

C11_Witness ==
  \E p, q \in Handlers :
    /\ Listed(q) /\ Len(ret[q].val) > 0
    /\ pc[p] = "list_fetch" /\ args[p] = args[q]
    /\ inflight = 1

\* document id has been created and removed again
Deleted(id) == id < nextId /\ id \notin DOMAIN db

\* the same of the state this step leads to
DeletedNext(id) == id < nextId' /\ id \notin DOMAIN db'

\* handler p completes a get of document id in this step
GetOf(p, id) ==
  pc[p] = "idle" /\ pc'[p] = "done" /\ args'[p].op = "get" /\ args'[p].id = id

\* handler p receives the answer of its collection query in this step
ListReturn(p) == pc[p] = "list_fetch" /\ pc'[p] = "done" /\ ret'[p].kind = "list"

ListedIds(r) == {r.val[k].id : k \in 1..Len(r.val)}

\* C12: once a delete of a document by its owner has answered true the
\* document is gone for good: it stays out of the store whatever the
\* overlapping handlers do, every get of its id from then on answers
\* NotFound, and every list answered from then on, with any sort key and
\* brand filter, holds no record with that id.
C12_DeletedStaysGone ==
  [][/\ \A p \in Handlers :
          (pc'[p] = "done" /\ args'[p].op = "delete" /\ ret'[p] = DeleteResponse(TRUE))
            => DeletedNext(args'[p].id)
     /\ \A id \in DocIds :
          Deleted(id) =>
            /\ DeletedNext(id)
            /\ \A p \in Handlers : GetOf(p, id) => ret'[p] = Undefined
            /\ \A p \in Handlers : ListReturn(p) => id \notin ListedIds(ret'[p])]_vars

\* a get of a deleted document has answered while an update of the same
\* document, started before the delete, is still about to write
C12_Witness ==
  \E p, q \in Handlers :
    /\ pc[p] = "done" /\ args[p].op = "get" /\ ret[p] = Undefined
    /\ Deleted(args[p].id)
    /\ pc[q] = "update_write" /\ args[q].id = args[p].id

Writes == {"create", "update"}

\* handler p's create or update answers with the written record in this step
WriteOk(p) ==
  pc[p] # "done" /\ pc'[p] = "done" /\ args'[p].op \in Writes /\ ret'[p].kind = "coffee"

\* handler p's create or update answers with the store's failure in this step
WriteFailed(p) ==
  pc[p] # "done" /\ pc'[p] = "done" /\ args'[p].op \in Writes /\ ret'[p] = ErrorResponse

\* handler p's delete answers true in this step
DeleteOk(p) == pc[p] = "delete_write" /\ ret'[p] = DeleteResponse(TRUE)

\* the payload's own fields (the owner is the caller's, storage.ts 91 and 111)
OwnFields(input) == (DOMAIN input) \ {"userId"}

\* reads of the store as this step leaves it show the write of call a:
\* get answers the written values, every list without a brand filter holds
\* the record, with the written values under getCoffees' rating rule
Reflects(a) ==
  LET got == getCoffeeResult(a.userId, a.id, ReadDoc(db', a.id))
  IN  /\ got # Undefined
      /\ \A k \in OwnFields(a.input) : got[k] = a.input[k]
      /\ \A sort \in SortKeys : \A docs \in Orders(QueryIds(db', a.userId)) :
           LET coffees == getCoffeesResult(db', docs, sort, NoBrand)
           IN  \E n \in 1..Len(coffees) :
                 /\ coffees[n].id = a.id
                 /\ \A k \in OwnFields(a.input) :
                      coffees[n][k] = IF k = "overallTasteRating"
                                      THEN Canonical(a.input[k]) ELSE a.input[k]

\* C13: a create or update that has answered successfully is what reads
\* show from then on (get answers the written values, list holds the
\* record), the store changes only by a successful create, update or
\* delete, and a write the store rejects leaves the store, and so every
\* later read, as it was.
C13_ReadsReflectWrites ==
  [][/\ \A p \in Handlers : WriteOk(p) => Reflects(args'[p])
     /\ \A p \in Handlers : WriteFailed(p) => db' = db /\ nextId' = nextId
     /\ db' # db => \E p \in Handlers : WriteOk(p) \/ DeleteOk(p)]_vars

\* an update has answered with the written record while another document
\* is in the store as well
C13_Witness ==
  \E p \in Handlers :
    /\ pc[p] = "done" /\ args[p].op = "update" /\ ret[p].kind = "coffee"
    /\ "updatedAt" \in DOMAIN db[args[p].id]
    /\ Cardinality(DOMAIN db) = 2

\* the fields the store sets on its own account
Stamps == {"userId", "createdAt", "updatedAt"}

Updated(p) == pc[p] = "done" /\ args[p].op = "update" /\ ret[p].kind = "coffee"

\* C14 as stated: after a successful update every field of the stored
\* record other than the owner and the time stamps is a field of the input
\* and holds the input's value; what the input omits is cleared.
C14_FullReplacement ==
  \A p \in Handlers :
    Updated(p) =>
      \A k \in (DOMAIN db[args[p].id]) \ Stamps :
        k \in DOMAIN args[p].input /\ db[args[p].id][k] = args[p].input[k]

\* C14 amended: a successful update sets every field the input carries to
\* the input's value and leaves every other stored field, coffeeName and
\* quantityUnit among them, as it was.
C14_MergeUpdate ==
  [][\A p \in Handlers :
       (WriteOk(p) /\ args'[p].op = "update") =>
         LET id     == args'[p].id
             input  == args'[p].input
         IN  /\ \A k \in OwnFields(input) : db'[id][k] = input[k]
             /\ \A k \in (DOMAIN db[id]) \ ((DOMAIN input) \cup Stamps) :
                  k \in DOMAIN db'[id] /\ db'[id][k] = db[id][k]]_vars

\* an update whose input has no coffeeName has answered, and the stored
\* record still has the coffeeName it had
C14_Witness ==
  \E p \in Handlers :
    /\ Updated(p)
    /\ "coffeeName" \notin DOMAIN args[p].input
    /\ "coffeeName" \in DOMAIN db[args[p].id]
    /\ db[args[p].id].brandName = args[p].input.brandName

\* handler p's create answers with the new record in this step
CreateOk(p) ==
  pc[p] = "idle" /\ pc'[p] = "done" /\ args'[p].op = "create" /\ ret'[p].kind = "coffee"

\* C15: in every execution, overlapping update and delete of one id
\* included, a document comes into the store only by a create, under an id
\* never used before; it leaves the store only by a delete of its id; an
\* update neither creates a document nor brings a deleted one back; and
\* the owner of a document in the store never changes.
C15_IdLifeCycle ==
  [][\A id \in DocIds :
       /\ (id \notin DOMAIN db /\ id \in DOMAIN db') =>
            /\ id = nextId
            /\ \E p \in Handlers : CreateOk(p) /\ args'[p].id = id
       /\ (id \in DOMAIN db /\ id \notin DOMAIN db') =>
            \E p \in Handlers : DeleteOk(p) /\ args[p].id = id
       /\ (id \in DOMAIN db /\ id \in DOMAIN db') =>
            db'[id].userId = db[id].userId
       /\ \A p \in Handlers :
            (pc[p] = "update_write" /\ pc'[p] = "done" /\ args[p].id = id)
              => (id \in DOMAIN db' <=> id \in DOMAIN db)]_vars

\* an update and a delete of one document overlapped: the delete has
\* answered true, the update's write found the document gone, and the
\* document is out of the store
C15_Witness ==
  \E p, q \in Handlers :
    /\ pc[p] = "done" /\ args[p].op = "update" /\ ret[p] = ErrorResponse
    /\ pc[q] = "done" /\ args[q].op = "delete" /\ ret[q] = DeleteResponse(TRUE)
    /\ args[p].id = args[q].id
    /\ Deleted(args[p].id)

DeletedTrue(p) ==
  pc[p] = "done" /\ args[p].op = "delete" /\ ret[p] = DeleteResponse(TRUE)

\* C16 as stated: of two overlapping deletes of one document by its owner
\* at most one answers true.
C16_OneDeleteTrue ==
  \A p, q \in Handlers :
    (DeletedTrue(p) /\ DeletedTrue(q) /\ args[p].id = args[q].id) => p = q

Reads == {"list", "get"}

\* handler p takes a step of a list or a get
ReadStep(p) ==
  pc'[p] # pc[p] /\ pc'[p] \in {"list_fetch", "done"} /\ args'[p].op \in Reads

\* C17: no step of a list or of a get, for any caller, sort key and brand
\* filter, changes the store: the set of documents, every field of every
\* document and the next id are as before.
C17_ReadsChangeNothing ==
  [][(\E p \in Handlers : ReadStep(p)) => (db' = db /\ nextId' = nextId)]_vars

\* a list has answered with a record and a get has answered with one
C17_Witness ==
  \E p, q \in Handlers :
    /\ Listed(p) /\ Len(ret[p].val) > 0
    /\ pc[q] = "done" /\ args[q].op = "get" /\ ret[q].kind = "coffee"
    /\ DOMAIN db # {}

\* the body of a create or update request as the claim describes a bad
\* one: a required text field missing or empty, one of the four ratings
\* outside [1,10], or worthReordering outside [0,1]
BadInput(body) ==
  \/ \E k \in {"brandName", "quantity", "orderDate", "roast", "formFactor", "notes"} :
       k \notin DOMAIN body \/ body[k] = ""
  \/ \E k \in {"bitternessRating", "acidityRating", "noteClarityRating",
               "overallTasteRating"} :
       k \in DOMAIN body /\ body[k] # NotNumber /\ (body[k] < R(1) \/ body[k] > R(10))
  \/ /\ "worthReordering" \in DOMAIN body
     /\ body.worthReordering # NotNumber
     /\ (body.worthReordering < R(0) \/ body.worthReordering > R(1))

\* what handler p was sent: the body when it was refused, else the payload
\* the storage was called with
SentBy(a) == IF "body" \in DOMAIN a THEN a.body ELSE a.input

\* C18: a create or update whose input is bad is answered with the
\* validation error in the very step it arrives: no storage operation is
\* started (nothing is read, nothing is written, no id is used up) and the
\* stored documents are unchanged; and no stored document is a bad input.
C18_InvalidNeverStored ==
  [][/\ \A p \in Handlers :
          (pc[p] = "idle" /\ pc'[p] # "idle" /\ args'[p].op \in Writes
             /\ BadInput(SentBy(args'[p])))
            => /\ pc'[p] = "done"
               /\ ret'[p] = ValidationResponse
               /\ doc'[p] = NoRead
               /\ db' = db /\ nextId' = nextId /\ inflight' = inflight
     /\ \A id \in DOMAIN db' : ~BadInput(db'[id])]_vars

\* an update with a rating above 10, addressed to a stored document of the
\* caller, has been answered with the validation error
C18_Witness ==
  \E p \in Handlers :
    /\ pc[p] = "done" /\ args[p].op = "update" /\ ret[p] = ValidationResponse
    /\ "overallTasteRating" \in DOMAIN args[p].body
    /\ args[p].body.overallTasteRating > R(10)
    /\ args[p].id \in DOMAIN db
    /\ db[args[p].id].userId = args[p].userId

\* handler p's collection query ends in this step
FetchEnds(p) == pc[p] = "list_fetch" /\ pc'[p] = "done"

\* the ids a correct list for call a holds, given the store
CorrectIds(store, a) ==
  {id \in DOMAIN store :
     /\ store[id].userId = a.userId
     /\ (a.brandName = NoBrand \/ store[id].brandName = a.brandName)}

\* C19: a collection query that fails is answered to its caller as an
\* error; nothing of it is kept (the handler holds no documents, the store
\* and the other handlers are as before); and every list that is answered,
\* also after failed ones, holds exactly the caller's records in the store
\* that match the brand filter.
C19_FailedFetchLeavesNoTrace ==
  [][\A p \in Handlers :
       FetchEnds(p) =>
         IF ret'[p].kind = "list"
         THEN ListedIds(ret'[p]) = CorrectIds(db, args[p])
              /\ Len(ret'[p].val) = Cardinality(CorrectIds(db, args[p]))
         ELSE /\ ret'[p] = ErrorResponse
              /\ doc'[p] = NoRead
              /\ db' = db /\ nextId' = nextId
              /\ \A q \in Handlers \ {p} :
                   pc'[q] = pc[q] /\ ret'[q] = ret[q] /\ doc'[q] = doc[q]]_vars

\* one caller's query has failed, and the same list asked by the other
\* handler is answered with the caller's records
C19_Witness ==
  \E p, q \in Handlers :
    /\ pc[p] = "done" /\ args[p].op = "list" /\ ret[p] = ErrorResponse
    /\ Listed(q) /\ args[q] = args[p]
    /\ Len(ret[q].val) = 2

\* a stored rating within the range the schema accepts
InStoredRange(r) == r # NotNumber /\ R(1) <= r /\ r <= R(10)

OnFivePoint(r) == R(1) <= r /\ r <= R(5)

\* C20 as stated: for a stored rating in [1,10], get answers the record
\* with its rating on the 5-point scale, the value list reports for the
\* same stored record, and every record list answers has its rating on the
\* 5-point scale.
C20_ReadsCanonical ==
  \A p \in Handlers :
    /\ (pc[p] = "done" /\ args[p].op = "get" /\ ret[p].kind = "coffee"
          /\ InStoredRange(RawRating(db[args[p].id])))
         => /\ OnFivePoint(ret[p].val.overallTasteRating)
            /\ ret[p].val.overallTasteRating =
                 MapDoc(args[p].id, db[args[p].id]).overallTasteRating
    /\ Listed(p) =>
         \A k \in 1..Len(ret[p].val) :
           InStoredRange(RawRating(db[ret[p].val[k].id]))
             => OnFivePoint(ret[p].val[k].overallTasteRating)

\* the dates of the claim: calendar dates, one of them before 1970
ValidDates == {"1960-01-01", "2024-01-01", "2024-02-01"}

HasValidDate(c) == "orderDate" \in DOMAIN c /\ c.orderDate \in ValidDates

\* the rating a record sorts by: 0 when it is missing or not a number
RatingOrZero(c) ==
  IF c.overallTasteRating = NotNumber THEN 0 ELSE c.overallTasteRating

\* C21 as stated: under the rating sort the records descend by rating, a
\* missing or non-numeric one counting as 0; under the orderDate sort every
\* record with a valid date, dates before 1970 included, precedes every
\* record whose date is missing or unparseable, and the records with valid
\* dates descend by date whatever other records are listed.
C21_MissingKeysSortLast ==
  \A p \in Handlers :
    Listed(p) =>
      \A k, l \in 1..Len(ret[p].val) :
        LET a == ret[p].val[k]
            b == ret[p].val[l]
        IN  IF args[p].sort = "overallTasteRating"
            THEN k < l => RatingOrZero(a) >= RatingOrZero(b)
            ELSE /\ (HasValidDate(a) /\ ~HasValidDate(b)) => k < l
                 /\ (HasValidDate(a) /\ HasValidDate(b) /\ k < l)
                      => getMillis(a.orderDate) >= getMillis(b.orderDate)

\* the caller's documents in the store
OwnIds(userId) == {id \in DOMAIN db : db[id].userId = userId}

\* the caller's documents whose brandName is exactly b
BrandIds(userId, b) == {id \in OwnIds(userId) : db[id].brandName = b}

\* C22 as stated: with a brand string given, the empty one included, the
\* list holds exactly the caller's records of that brandName; with none
\* given it holds all of the caller's records.
C22_EveryStringFilters ==
  \A p \in Handlers :
    Listed(p) =>
      ListedIds(ret[p]) = IF args[p].brandName = NotGiven
                          THEN OwnIds(args[p].userId)
                          ELSE BrandIds(args[p].userId, args[p].brandName)

\* C22 amended: with a non-empty brand string given the list holds exactly
\* the caller's records whose brandName is that string, an exact and
\* case-sensitive match; with no brand given, or the empty string, it
\* holds all of the caller's records; no record is listed twice.
C22_NonEmptyStringFilters ==
  \A p \in Handlers :
    Listed(p) =>
      /\ ListedIds(ret[p]) = IF args[p].brandName \in {NotGiven, ""}
                             THEN OwnIds(args[p].userId)
                             ELSE BrandIds(args[p].userId, args[p].brandName)
      /\ Len(ret[p].val) = Cardinality(ListedIds(ret[p]))

\* ?brand= with the empty string has been answered with the caller's two
\* records, of different brands
C22_Witness ==
  \E p \in Handlers :
    /\ Listed(p) /\ args[p].brandName = ""
    /\ Len(ret[p].val) = 2
    /\ ret[p].val[1].brandName # ret[p].val[2].brandName

\* C23: a list that overlaps creates, updates and deletes is answered from
\* the store as it is at one instant, the step in which the query is
\* answered: it holds exactly the caller's records of that instant that
\* match the brand filter, each once, each with every field as getCoffees
\* maps the whole stored document of that instant, in descending order of
\* the sort key.
C23_ListOfOneInstant ==
  [][\A p \in Handlers :
       ListReturn(p) =>
         LET val == ret'[p].val
         IN  /\ ListedIds(ret'[p]) = CorrectIds(db, args[p])
             /\ Len(val) = Cardinality(CorrectIds(db, args[p]))
             /\ \A k \in 1..Len(val) : val[k] = MapDoc(val[k].id, db[val[k].id])
             /\ \A k, l \in 1..Len(val) :
                  k < l => KeyOf(val[k], args[p].sort) >= KeyOf(val[l], args[p].sort)]_vars

\* a list was answered while an update of one of its records was under
\* way: the list shows the record as it was, the store holds it updated
C23_Witness ==
  \E p, q \in Handlers :
    /\ Listed(p)
    /\ pc[q] = "done" /\ args[q].op = "update" /\ ret[q].kind = "coffee"
    /\ \E k \in 1..Len(ret[p].val) :
         /\ ret[p].val[k].id = args[q].id
         /\ "updatedAt" \notin DOMAIN ret[p].val[k]
         /\ "updatedAt" \in DOMAIN db[args[q].id]

\* C24: a successful update leaves the document under its id, with the
\* owner and the createdAt it had, also when the input carries another
\* owner; it stamps updatedAt; it leaves every other document alone; and
\* the record it returns has the id that was addressed.
C24_UpdateFrame ==
  [][\A p \in Handlers :
       (WriteOk(p) /\ args'[p].op = "update") =>
         LET id == args'[p].id
         IN  /\ id \in DOMAIN db /\ DOMAIN db' = DOMAIN db
             /\ db'[id].userId = db[id].userId
             /\ db'[id].createdAt = db[id].createdAt
             /\ "updatedAt" \in DOMAIN db'[id]
             /\ db'[id].updatedAt \in StampTimes
             /\ \A other \in (DOMAIN db) \ {id} : db'[other] = db[other]
             /\ ret'[p].val.id = id]_vars

\* an update whose input names another owner has answered: the document
\* has the owner and the createdAt of its creation and a later updatedAt
C24_Witness ==
  \E p \in Handlers :
    /\ Updated(p)
    /\ "userId" \in DOMAIN args[p].input
    /\ args[p].input.userId # args[p].userId
    /\ db[args[p].id].userId = args[p].userId
    /\ db[args[p].id].createdAt = 1
    /\ db[args[p].id].updatedAt = 2
    /\ ret[p].val.id = args[p].id

\* C25 as stated: the document a create has stored carries createdAt and
\* updatedAt, both stamped by the storage.
C25_CreateStampsBoth ==
  \A p \in Handlers :
    (Created(p) /\ ret[p].kind = "coffee") =>
      /\ "createdAt" \in DOMAIN db[args[p].id]
      /\ "updatedAt" \in DOMAIN db[args[p].id]

\* C25 amended: a create stores the document under the id the store
\* assigns and returns the record with that id; it stamps createdAt with
\* the time of the write and stamps no updatedAt, which the document gets
\* with its first update.
C25_CreateStampsCreatedAt ==
  [][\A p \in Handlers :
       CreateOk(p) =>
         LET id == args'[p].id
         IN  /\ id = nextId /\ id \notin DOMAIN db /\ id \in DOMAIN db'
             /\ "createdAt" \in DOMAIN db'[id]
             /\ db'[id].createdAt \in StampTimes
             /\ "updatedAt" \notin DOMAIN db'[id]
             /\ ret'[p].val.id = id]_vars

\* a second create has answered, at a later time than the first
C25_Witness ==
  \E p \in Handlers :
    /\ Created(p) /\ ret[p].kind = "coffee"
    /\ args[p].id = 2 /\ ret[p].val.id = 2
    /\ 1 \in DOMAIN db /\ db[1].createdAt = 1
    /\ db[2].createdAt = 2
    /\ "updatedAt" \notin DOMAIN db[2]

\* handler p's request ends in this step
Ends(p) == pc[p] # "done" /\ pc'[p] = "done"

\* how far a request has come: accepted, waiting for the store, answered
Rank(at) == CASE at = "idle" -> 0 [] at = "done" -> 2 [] OTHER -> 1

\* the store answered handler p's read: no document, or another owner's
AnsweredNothing(p) ==
  doc'[p].read /\ (~doc'[p].exists \/ doc'[p].userId # args'[p].userId)

\* C26: a request the store failed is answered 500, and only such a
\* request and an update whose document is gone are; it leaves the store
\* as it was.  NotFound is answered only when the store answered the read
\* with no document or another owner's, a record only when the store
\* answered with or accepted it.  No store call is repeated: a request
\* moves from accepted to waiting to answered and never back, and a list
\* has one query in flight from its call to its answer.
C26_FailurePropagates ==
  [][\A p \in Handlers :
       /\ (Ends(p) /\ ret'[p] = ErrorResponse) =>
            /\ ret'[p].status = 500
            /\ db' = db /\ nextId' = nextId
       /\ (Ends(p) /\ ret'[p] \in {Undefined, DeleteResponse(FALSE)}) =>
            AnsweredNothing(p)
       /\ (Ends(p) /\ ret'[p].kind \in {"coffee", "true", "list"}) =>
            /\ doc'[p].read \/ args'[p].op = "create"
            /\ args'[p].op \in {"get", "update"} => args'[p].id \in DOMAIN db'
            /\ args'[p].op = "create" => (args'[p].id \in DOMAIN db' /\ nextId' = nextId + 1)
            /\ args'[p].op = "delete" => args'[p].id \notin DOMAIN db'
       /\ pc'[p] # pc[p] =>
            \/ Rank(pc'[p]) > Rank(pc[p])
            \/ (pc[p] = "done" /\ pc'[p] = "idle")
       /\ inflight' = Cardinality({q \in Handlers : pc'[q] = "list_fetch"})]_vars

\* the store rejected the write of an update: the request is answered 500
\* and the document, which the guard had found, is as it was created
C26_Witness ==
  \E p \in Handlers :
    /\ pc[p] = "done" /\ args[p].op = "update" /\ ret[p] = ErrorResponse
    /\ doc[p].read /\ doc[p].exists /\ doc[p].userId = args[p].userId
    /\ args[p].id \in DOMAIN db
    /\ "updatedAt" \notin DOMAIN db[args[p].id]
    /\ db[args[p].id].brandName # args[p].input.brandName

\* handler p takes this step, as part of a request made with identity u
StepOf(p, u) ==
  /\ pc'[p] # pc[p]
  /\ u = IF pc[p] = "idle" THEN args'[p].userId ELSE args[p].userId

\* what get and list answer owner v on store a they answer on store b
SameReads(v, a, b) ==
  \/ a = b
  \/ /\ QueryIds(a, v) = QueryIds(b, v)
     /\ \A id \in (DOMAIN a) \cup (DOMAIN b) :
          getCoffeeResult(v, id, ReadDoc(a, id)) = getCoffeeResult(v, id, ReadDoc(b, id))
     /\ \A docs \in Orders(QueryIds(a, v)), sort \in SortKeys, b0 \in Brands \cup {NoBrand} :
          getCoffeesResult(a, docs, sort, b0) = getCoffeesResult(b, docs, sort, b0)

\* C27: no step of a list, get, create, update or delete made with
\* identity u touches another owner's data: every document of an owner v
\* other than u stays in the store with every field as it was, no document
\* of v comes into being, and get and list answer v after the step what
\* they answered before it.
C27_OtherOwnersUntouched ==
  [][\A p \in Handlers, u \in Users :
       StepOf(p, u) =>
         /\ \A id \in DOMAIN db :
              db[id].userId # u => (id \in DOMAIN db' /\ db'[id] = db[id])
         /\ \A id \in (DOMAIN db') \ (DOMAIN db) : db'[id].userId = u
         /\ \A v \in Users \ {u} : SameReads(v, db, db')]_vars

\* u1 has created, and deleted a record of its own, next to a record of
\* u2, which u2 is listed
C27_Witness ==
  \E p, q \in Handlers :
    /\ DeletedTrue(p) /\ args[p].userId = "u1"
    /\ Listed(q) /\ args[q].userId = "u2" /\ Len(ret[q].val) = 1
    /\ \E id \in DOMAIN db : db[id].userId = "u2" /\ id > args[p].id

\* handler p accepts a request in this step
Accepts(p) == pc[p] = "idle" /\ pc'[p] # "idle"

\* C28: a request to any of the five routes without a session is answered
\* 401 at once, with no storage operation: nothing is read, queried or
\* written.  Every storage operation runs under the identity of a session,
\* and that identity is the owner of the document a create stores and of
\* the document an update has written, whatever the body said.
C28_SessionOnly ==
  [][\A p \in Handlers :
       /\ (Accepts(p) /\ args'[p].userId \notin Users) =>
            /\ pc'[p] = "done"
            /\ ret'[p] = UnauthorizedResponse
            /\ doc'[p] = NoRead
            /\ db' = db /\ nextId' = nextId /\ inflight' = inflight
       /\ (Accepts(p) /\ ret'[p] # UnauthorizedResponse) => args'[p].userId \in Users
       /\ pc'[p] \in {"list_fetch", "update_write", "delete_write"} =>
            args'[p].userId \in Users
       /\ WriteOk(p) => db'[args'[p].id].userId = args'[p].userId
       /\ \A id \in DOMAIN db' : db'[id].userId \in Users]_vars

\* a DELETE without a session has been answered 401 with the store filled
C28_Witness ==
  \E p \in Handlers :
    /\ pc[p] = "done" /\ args[p].op = "delete" /\ args[p].userId = NoSession
    /\ ret[p].status = 401
    /\ Cardinality(DOMAIN db) = 2

\* the fields of the input the round trip is about
TripFields == SchemaKeys \ {"overallTasteRating"}

\* the document of p's finished create is in the store and no update has
\* written it since (every update stamps updatedAt, storage.ts 112)
AsCreated(p) ==
  /\ Created(p)
  /\ args[p].id \in DOMAIN db
  /\ "updatedAt" \notin DOMAIN db[args[p].id]

\* C29: when createCoffee(u, x) has returned a record with id i and no
\* update or delete of i has come between, getCoffee(u, i) returns a
\* record with id i whose fields other than the overall rating are those
\* of x and those of the record createCoffee returned.
C29_RoundTrip ==
  [][\A p, q \in Handlers :
       (AsCreated(p) /\ GetOf(q, args[p].id) /\ args'[q].userId = args[p].userId) =>
         /\ ret'[q].kind = "coffee"
         /\ ret'[q].val.id = args[p].id
         /\ ret[p].val.id = args[p].id
         /\ \A k \in TripFields :
              /\ k \in DOMAIN ret'[q].val /\ k \in DOMAIN args[p].input
              /\ ret'[q].val[k] = args[p].input[k]
              /\ ret'[q].val[k] = ret[p].val[k]]_vars

\* a create has returned and, while its answer is still held, the get of
\* the created document by the same owner has answered on another handler
C29_Witness ==
  \E p, q \in Handlers :
    /\ p # q /\ AsCreated(p)
    /\ pc[q] = "done" /\ args[q].op = "get" /\ args[q].id = args[p].id
    /\ args[q].userId = args[p].userId
    /\ ret[q] # Undefined /\ ret[q].kind = "coffee"

\* the ids the store has assigned so far
AssignedIds == 1..(nextId - 1)

\* C30: the id of every record the storage layer returns is the store's
\* document id: the assigned id for a create, the addressed id for an
\* update and a get, and for a list the ids of the caller's documents, each
\* once, whatever keys the payload or the stored data carry.
C30_IdIsStoreId ==
  \A p \in Handlers :
    (pc[p] = "done" /\ ret[p] # Undefined) =>
      /\ ret[p].kind = "coffee" => ret[p].val.id = args[p].id
      /\ ret[p].kind = "list" =>
           /\ ListedIds(ret[p]) \subseteq AssignedIds
           /\ Cardinality(ListedIds(ret[p])) = Len(ret[p].val)
====
